---- MODULE Spec2Model ----
(***************************************************************************)
(* Model of src/src/wallet.rs: StacksAccount, StacksWallet, the account    *)
(* cache (get_account / set_account) and the passphrase vault codec        *)
(* (encrypt_key / from_encrypted_key).                                     *)
(*                                                                         *)
(* Bytes are integers 0..255 and byte strings are sequences of them, with  *)
(* the lengths the program uses (16-byte salt, 32-byte chain code, 32-byte *)
(* private key, 16-byte tag).  The external primitives are modelled by     *)
(* small arithmetic stand-ins that keep their shape: PBKDF2 is a           *)
(* deterministic digest of (salt, passphrase), AES-128-GCM is a counter    *)
(* mode keystream plus a polynomial tag with an invertible hash key (as    *)
(* GHASH is), with byte arithmetic modulo 256,                             *)
(* BIP32 child derivation is a deterministic function of (root, index)     *)
(* that can fail.                                                          *)
(***************************************************************************)
EXTENDS Integers, Sequences, FiniteSets, TLC

VARIABLES wallets, ret

vars == <<wallets, ret>>

(***************************************************************************)
(* Bounds of the model.                                                    *)
(***************************************************************************)
NumMnemonics == 2
MaxIndex == 1
NumPassphrases == 2
NumSalts == 2

Mnemonics == 1..NumMnemonics
Indices == 0..MaxIndex
Passphrases == 1..NumPassphrases
SaltChoices == 1..NumSalts

(***************************************************************************)
(* Program constants.                                                      *)
(***************************************************************************)
SALT_LEN == 16
ENC_KEY_LEN == 16
NONCE_LEN == 12
TAG_LEN == 16
KEY_BYTE_SIZE == 32

(***************************************************************************)
(* Result<T, Error> values, and a panic (which is not a value: the caller  *)
(* is unwound).                                                            *)
(***************************************************************************)
Ok(v) == [kind |-> "Ok", value |-> v]
Err(e) == [kind |-> "Err", error |-> e]
Panic(where) == [kind |-> "Panic", at |-> where]

(***************************************************************************)
(* Inputs: passphrase.as_bytes(), and the salts rng.gen() may return.      *)
(***************************************************************************)
PassBytes(p) == <<112, 119, 48 + p>>

SaltOf(s) == [k \in 1..SALT_LEN |-> (s * 29 + k * 3) % 256]

(***************************************************************************)
(* bip39::Mnemonic::parse + to_seed_normalized + ExtendedPrivateKey::      *)
(* from_seed: the root key of a mnemonic (depth 0).                        *)
(***************************************************************************)
RootKey(m) ==
    [private_key |-> [k \in 1..KEY_BYTE_SIZE |-> (m * 101 + k * 7 + 1) % 256],
     chain_code |-> [k \in 1..KEY_BYTE_SIZE |-> (m * 37 + k * 11) % 256],
     depth |-> 0]

NoAccounts == [i \in {} |-> 0]

StacksWalletNew(root_key, accounts) == [root_key |-> root_key, accounts |-> accounts]

from_secret_key(m) == StacksWalletNew(RootKey(m), NoAccounts)

(***************************************************************************)
(* StacksAccount                                                           *)
(***************************************************************************)
StacksAccountNew(index, public_key, private_key) ==
    [index |-> index, public_key |-> public_key, private_key |-> private_key]

\* root.derive(STX_DERIVATION_PATH)?.child(index)?: fails when the derived
\* scalar is invalid, else the child private key.
ChildKey(root, index) ==
    IF (root.chain_code[1] * 3 + root.private_key[1] + index * 3 + 1) % 7 = 0
    THEN Err("Derivation")
    ELSE Ok([k \in 1..KEY_BYTE_SIZE |->
                (root.private_key[k] + root.chain_code[k] * (index + 1) + 57) % 256])

PublicKey(private_key) == [k \in 1..KEY_BYTE_SIZE |-> (private_key[k] * 3 + 1) % 256]

Derive(root, index) ==
    LET child == ChildKey(root, index)
    IN  IF child.kind = "Err" THEN child
        ELSE Ok(StacksAccountNew(index, PublicKey(child.value), child.value))

(***************************************************************************)
(* StacksWallet: the account cache.                                        *)
(***************************************************************************)
\* HashMap::insert
Insert(accounts, index, account) ==
    [i \in (DOMAIN accounts) \cup {index} |-> IF i = index THEN account ELSE accounts[i]]

\* Mutant of set_account: inserts only where no entry is (or_insert).
set_account_IfAbsent(self, index, account) ==
    IF index \in DOMAIN self.accounts THEN self
    ELSE [self EXCEPT !.accounts = Insert(self.accounts, index, account)]

\* set_account(&mut self, index, account): the wallet afterwards.
set_account(self, index, account) ==
    [self EXCEPT !.accounts = Insert(self.accounts, index, account)]

\* Mutant of get_account: derives the account of the next index.
get_account_DeriveNext(self, index) ==
    IF index \in DOMAIN self.accounts
    THEN [self |-> self, cached |-> TRUE, res |-> Ok(self.accounts[index])]
    ELSE LET account == Derive(self.root_key, index + 1)
         IN  IF account.kind = "Err"
             THEN [self |-> self, cached |-> FALSE, res |-> account]
             ELSE [self |-> set_account(self, index, account.value),
                   cached |-> FALSE,
                   res |-> Ok(account.value)]

\* Mutant of get_account: a hit returns the entry of the lowest cached index.
get_account_AnyEntry(self, index) ==
    IF index \in DOMAIN self.accounts
    THEN [self |-> self, cached |-> TRUE,
          res |-> Ok(self.accounts[CHOOSE i \in DOMAIN self.accounts :
                                      \A j \in DOMAIN self.accounts : i <= j])]
    ELSE LET account == Derive(self.root_key, index)
         IN  IF account.kind = "Err"
             THEN [self |-> self, cached |-> FALSE, res |-> account]
             ELSE [self |-> set_account(self, index, account.value),
                   cached |-> FALSE,
                   res |-> Ok(account.value)]

\* Mutant of get_account: reserves the cache slot before deriving, with an
\* account made of the root key, and leaves it there when derivation fails.
get_account_InsertOnError(self, index) ==
    IF index \in DOMAIN self.accounts
    THEN [self |-> self, cached |-> TRUE, res |-> Ok(self.accounts[index])]
    ELSE LET account == Derive(self.root_key, index)
             slot == StacksAccountNew(index, PublicKey(self.root_key.private_key),
                                      self.root_key.private_key)
         IN  IF account.kind = "Err"
             THEN [self |-> set_account(self, index, slot), cached |-> FALSE, res |-> account]
             ELSE [self |-> set_account(self, index, account.value),
                   cached |-> FALSE,
                   res |-> Ok(account.value)]

\* Mutant of get_account: a miss derives the account whose index is the
\* number of entries cached so far.
get_account_NextIndex(self, index) ==
    IF index \in DOMAIN self.accounts
    THEN [self |-> self, cached |-> TRUE, res |-> Ok(self.accounts[index])]
    ELSE LET account == Derive(self.root_key, Cardinality(DOMAIN self.accounts))
         IN  IF account.kind = "Err"
             THEN [self |-> self, cached |-> FALSE, res |-> account]
             ELSE [self |-> set_account(self, index, account.value),
                   cached |-> FALSE,
                   res |-> Ok(account.value)]

\* get_account(&mut self, index): the wallet afterwards, the returned value,
\* and which branch ran (cached: the entry was found in the map).
get_account(self, index) ==
    IF index \in DOMAIN self.accounts
    THEN [self |-> self, cached |-> TRUE, res |-> Ok(self.accounts[index])]
    ELSE LET account == Derive(self.root_key, index)
         IN  IF account.kind = "Err"
             THEN [self |-> self, cached |-> FALSE, res |-> account]
             ELSE [self |-> set_account(self, index, account.value),
                   cached |-> FALSE,
                   res |-> Ok(account.value)]

(***************************************************************************)
(* ring::pbkdf2::derive(PBKDF2_HMAC_SHA512, n_iter, salt, secret, out):    *)
(* a deterministic digest of salt and secret, stretched to Len(out) bytes. *)
(***************************************************************************)
RECURSIVE Absorb(_, _, _)
Absorb(h, bytes, i) ==
    IF i > Len(bytes) THEN h
    ELSE Absorb((h * 31 + bytes[i] + 1) % 65521, bytes, i + 1)

\* Mutant of Pbkdf2Derive: the secret is not mixed in.
Pbkdf2Derive_SaltOnly(salt, secret, out_len) ==
    LET h == Absorb(7, salt, 1)
    IN  [k \in 1..out_len |-> ((h + k) * (2 * k + 1) + (h \div 256)) % 256]

Pbkdf2Derive(salt, secret, out_len) ==
    LET h == Absorb(Absorb(7, salt, 1), secret, 1)
    IN  [k \in 1..out_len |-> ((h + k) * (2 * k + 1) + (h \div 256)) % 256]

(***************************************************************************)
(* ring::aead AES_128_GCM with an empty Aad.  Encryption is a counter-mode *)
(* keystream added to the plaintext.  The tag is GHASH-shaped: the         *)
(* ciphertext is read in blocks of TAG_LEN bytes (the last one padded with *)
(* zeros), each block is added to the accumulator and the sum multiplied   *)
(* by the hash key, then the length is absorbed and the result masked with *)
(* key and nonce.  The arithmetic is per byte modulo 256 and the hash key  *)
(* is odd, hence invertible, as the hash key of GHASH is in its field.     *)
(***************************************************************************)
KeyStream(key, nonce, i) ==
    (key[((i - 1) % ENC_KEY_LEN) + 1] + nonce[((i - 1) % NONCE_LEN) + 1] + i) % 256

HashKey(key) == 2 * ((key[1] * 5 + key[2]) % 128) + 1

\* byte j of the accumulator after blocks 1..b of ct
RECURSIVE GHash(_, _, _, _)
GHash(ct, h, j, b) ==
    IF b = 0 THEN 0
    ELSE LET i == TAG_LEN * (b - 1) + j
         IN  ((GHash(ct, h, j, b - 1) + (IF i <= Len(ct) THEN ct[i] ELSE 0)) * h) % 256

Tag(key, nonce, ct) ==
    LET h == HashKey(key)
        blocks == (Len(ct) + TAG_LEN - 1) \div TAG_LEN
    IN  [j \in 1..TAG_LEN |->
            (((GHash(ct, h, j, blocks) + Len(ct)) * h)
                + key[j] + nonce[((j - 1) % NONCE_LEN) + 1]) % 256]

\* LessSafeKey::seal_in_place_append_tag: the buffer afterwards.
SealInPlaceAppendTag(key, nonce, in_out) ==
    LET ct == [i \in 1..Len(in_out) |-> (in_out[i] + KeyStream(key, nonce, i)) % 256]
    IN  ct \o Tag(key, nonce, ct)

\* LessSafeKey::open_in_place: Err, or Ok with the buffer afterwards (the
\* plaintext in front, the buffer's length unchanged).
OpenInPlace(key, nonce, in_out) ==
    IF Len(in_out) < TAG_LEN THEN Err("Unspecified")
    ELSE LET n == Len(in_out) - TAG_LEN
             ct == SubSeq(in_out, 1, n)
         IN  IF Tag(key, nonce, ct) # SubSeq(in_out, n + 1, Len(in_out))
             THEN Err("Unspecified")
             ELSE Ok([i \in 1..Len(in_out) |->
                        IF i <= n
                        THEN (in_out[i] + 256 - KeyStream(key, nonce, i)) % 256
                        ELSE in_out[i]])

(***************************************************************************)
(* StacksWallet: the vault codec.                                          *)
(***************************************************************************)
\* Mutant of encrypt_key: the private key is written before the chain code.
encrypt_key_KeyFirst(self, passphrase, salt) ==
    LET key_and_nonce == Pbkdf2Derive(salt, passphrase, ENC_KEY_LEN + NONCE_LEN)
        enc_key == SubSeq(key_and_nonce, 1, ENC_KEY_LEN)
        nonce == SubSeq(key_and_nonce, ENC_KEY_LEN + 1, ENC_KEY_LEN + NONCE_LEN)
        data == self.root_key.private_key \o self.root_key.chain_code
    IN  Ok(salt \o SealInPlaceAppendTag(enc_key, nonce, data))

\* encrypt_key(&self, passphrase), with the salt the rng returned.
encrypt_key(self, passphrase, salt) ==
    LET key_and_nonce == Pbkdf2Derive(salt, passphrase, ENC_KEY_LEN + NONCE_LEN)
        enc_key == SubSeq(key_and_nonce, 1, ENC_KEY_LEN)
        nonce == SubSeq(key_and_nonce, ENC_KEY_LEN + 1, ENC_KEY_LEN + NONCE_LEN)
        data == self.root_key.chain_code \o self.root_key.private_key
    IN  Ok(salt \o SealInPlaceAppendTag(enc_key, nonce, data))

\* StacksPrivateKey::from_slice
PrivateKeyFromSlice(bytes) ==
    IF Len(bytes) # KEY_BYTE_SIZE THEN Err("InvalidSecretKey") ELSE Ok(bytes)

\* Mutant of from_encrypted_key: the result of open_in_place is dropped, the
\* buffer is read whether or not the tag matched.
from_encrypted_key_Unchecked(passphrase, data) ==
    IF Len(data) < SALT_LEN THEN Panic("data[..16]")
    ELSE
    LET salt == SubSeq(data, 1, SALT_LEN)
        ciphertext == SubSeq(data, SALT_LEN + 1, Len(data))
        key_and_nonce == Pbkdf2Derive(salt, passphrase, ENC_KEY_LEN + NONCE_LEN)
        enc_key == SubSeq(key_and_nonce, 1, ENC_KEY_LEN)
        nonce == SubSeq(key_and_nonce, ENC_KEY_LEN + 1, ENC_KEY_LEN + NONCE_LEN)
        buf == [i \in 1..Len(ciphertext) |->
                    IF i <= Len(ciphertext) - TAG_LEN
                    THEN (ciphertext[i] + 256 - KeyStream(enc_key, nonce, i)) % 256
                    ELSE ciphertext[i]]
    IN  IF Len(buf) < KEY_BYTE_SIZE THEN Panic("data[..KEY_BYTE_SIZE]")
        ELSE IF Len(buf) - 16 < KEY_BYTE_SIZE
        THEN Panic("data[KEY_BYTE_SIZE..data.len() - 16]")
        ELSE
        LET chain_code == SubSeq(buf, 1, KEY_BYTE_SIZE)
            private_key ==
                PrivateKeyFromSlice(SubSeq(buf, KEY_BYTE_SIZE + 1, Len(buf) - 16))
        IN  IF private_key.kind = "Err" THEN private_key
            ELSE Ok(StacksWalletNew(
                    [private_key |-> private_key.value,
                     chain_code |-> chain_code,
                     depth |-> 0],
                    NoAccounts))

\* from_encrypted_key(passphrase, data)
from_encrypted_key(passphrase, data) ==
    IF Len(data) < SALT_LEN THEN Panic("data[..16]")
    ELSE
    LET salt == SubSeq(data, 1, SALT_LEN)
        ciphertext == SubSeq(data, SALT_LEN + 1, Len(data))
        key_and_nonce == Pbkdf2Derive(salt, passphrase, ENC_KEY_LEN + NONCE_LEN)
        enc_key == SubSeq(key_and_nonce, 1, ENC_KEY_LEN)
        nonce == SubSeq(key_and_nonce, ENC_KEY_LEN + 1, ENC_KEY_LEN + NONCE_LEN)
        opened == OpenInPlace(enc_key, nonce, ciphertext)
    IN  IF opened.kind = "Err" THEN opened
        ELSE
        LET buf == opened.value
        IN  IF Len(buf) < KEY_BYTE_SIZE THEN Panic("data[..KEY_BYTE_SIZE]")
            ELSE IF Len(buf) - 16 < KEY_BYTE_SIZE
            THEN Panic("data[KEY_BYTE_SIZE..data.len() - 16]")
            ELSE
            LET chain_code == SubSeq(buf, 1, KEY_BYTE_SIZE)
                private_key ==
                    PrivateKeyFromSlice(SubSeq(buf, KEY_BYTE_SIZE + 1, Len(buf) - 16))
            IN  IF private_key.kind = "Err" THEN private_key
                ELSE Ok(StacksWalletNew(
                        [private_key |-> private_key.value,
                         chain_code |-> chain_code,
                         depth |-> 0],
                        NoAccounts))

(***************************************************************************)
(* State: the wallets the caller owns, and the last call with what it      *)
(* returned.                                                               *)
(***************************************************************************)
NoCall == [op |-> "none"]

\* One wallet, built by from_secret_key.
Init ==
    /\ wallets \in [{1} -> {from_secret_key(m) : m \in Mnemonics}]
    /\ ret = NoCall

\* Two wallets, each built by from_secret_key.
InitPair ==
    /\ wallets \in [{1, 2} -> {from_secret_key(m) : m \in Mnemonics}]
    /\ ret = NoCall

GetAccount(w, index) ==
    LET r == get_account(wallets[w], index)
    IN  /\ wallets' = [wallets EXCEPT ![w] = r.self]
        /\ ret' = [op |-> "get_account", wallet |-> w, index |-> index,
                   cached |-> r.cached, res |-> r.res]

SetAccount(w, index, account) ==
    /\ wallets' = [wallets EXCEPT ![w] = set_account(wallets[w], index, account)]
    /\ ret' = [op |-> "set_account", wallet |-> w, index |-> index, account |-> account]

\* the salt is what rng.gen() returned
EncryptKey(w, p) ==
    \E s \in SaltChoices :
        /\ ret' = [op |-> "encrypt_key", wallet |-> w, passphrase |-> p,
                   res |-> encrypt_key(wallets[w], PassBytes(p), SaltOf(s))]
        /\ UNCHANGED wallets

FromEncryptedKey(p, data) ==
    /\ ret' = [op |-> "from_encrypted_key", passphrase |-> p, data |-> data,
               res |-> from_encrypted_key(PassBytes(p), data)]
    /\ UNCHANGED wallets

(***************************************************************************)
(* What callers pass in.                                                   *)
(***************************************************************************)
\* The values of the results that are Ok.
OkValues(results) == {r.value : r \in {x \in results : x.kind = "Ok"}}

\* The accounts derivation yields for index under any of the mnemonics.
DerivedAt(index) == OkValues({Derive(RootKey(m), index) : m \in Mnemonics})

\* The accounts derivation yields for wallet w under any index.
DerivedBy(w) == OkValues({Derive(wallets[w].root_key, i) : i \in Indices})

\* StacksAccount is Copy with public fields, so set_account can be handed any
\* account: here one of another wallet, or one of another index.
Offered(w, index) == DerivedAt(index) \cup DerivedBy(w)

\* The account a caller restoring a session hands to set_account: the one
\* this wallet derives at that index.
Restored(w, index) == OkValues({Derive(wallets[w].root_key, index)})

TamperDeltas == {1}

\* data with the byte at pos changed to another value.
Tamper(data, pos, delta) == [data EXCEPT ![pos] = (data[pos] + delta) % 256]

Tampered(data) ==
    {Tamper(data, pos, d) : pos \in (SALT_LEN + 1)..Len(data), d \in TamperDeltas}

\* data cut to fewer bytes than a salt and a tag take.
Truncated(data) == {SubSeq(data, 1, n) : n \in 0..(SALT_LEN + TAG_LEN - 1)}

CraftLens == {0, 15, 16, 31, 32, 63, 65}

\* A vault in the layout and under the key schedule of encrypt_key whose
\* plaintext has n bytes instead of the 64 of a root key.
Resealed(self, passphrase, salt, n) ==
    LET key_and_nonce == Pbkdf2Derive(salt, passphrase, ENC_KEY_LEN + NONCE_LEN)
        enc_key == SubSeq(key_and_nonce, 1, ENC_KEY_LEN)
        nonce == SubSeq(key_and_nonce, ENC_KEY_LEN + 1, ENC_KEY_LEN + NONCE_LEN)
        material == self.root_key.chain_code \o self.root_key.private_key
        data == [i \in 1..n |-> material[((i - 1) % Len(material)) + 1]]
    IN  salt \o SealInPlaceAppendTag(enc_key, nonce, data)

\* What the caller may hand to from_encrypted_key once encrypt_key has
\* returned vault v under passphrase p: v with any passphrase; and, with p,
\* v with one byte changed, v cut short, and a vault around a plaintext of
\* another length.
VaultInputs ==
    IF ret.op # "encrypt_key" THEN {}
    ELSE LET v == ret.res.value
             p == ret.passphrase
         IN  {<<q, v>> : q \in Passphrases}
             \cup {<<p, x>> : x \in Tampered(v) \cup Truncated(v)}
             \cup {<<p, Resealed(wallets[ret.wallet], PassBytes(p),
                                 SubSeq(v, 1, SALT_LEN), n)>> : n \in CraftLens}

(***************************************************************************)
(* Specifications.                                                         *)
(*   Spec        one wallet; the cache operations with any caller input,   *)
(*               and encrypt_key.                                          *)
(*   SpecDerived two wallets; get_account, and set_account restoring       *)
(*               derived accounts only.                                    *)
(*   SpecVault   one wallet; the vault codec, on a wallet whose cache was  *)
(*               filled by get_account and restoring set_account calls.    *)
(***************************************************************************)
Next ==
    \/ \E w \in DOMAIN wallets, index \in Indices : GetAccount(w, index)
    \/ \E w \in DOMAIN wallets, index \in Indices :
            \E account \in Offered(w, index) : SetAccount(w, index, account)
    \/ \E w \in DOMAIN wallets, p \in Passphrases : EncryptKey(w, p)

Spec == Init /\ [][Next]_vars

NextDerived ==
    \/ \E w \in DOMAIN wallets, index \in Indices : GetAccount(w, index)
    \/ \E w \in DOMAIN wallets, index \in Indices :
            \E account \in Restored(w, index) : SetAccount(w, index, account)

SpecDerived == InitPair /\ [][NextDerived]_vars

NextVault ==
    \/ \E w \in DOMAIN wallets, index \in Indices : GetAccount(w, index)
    \/ \E w \in DOMAIN wallets, index \in Indices :
            \E account \in Restored(w, index) : SetAccount(w, index, account)
    \/ \E w \in DOMAIN wallets, p \in Passphrases : EncryptKey(w, p)
    \/ \E in \in VaultInputs : FromEncryptedKey(in[1], in[2])

SpecVault == Init /\ [][NextVault]_vars

(***************************************************************************)
(* Properties.                                                             *)
(***************************************************************************)
\* The vault encrypt_key(w, passphrase) returns when the rng hands it the
\* salt that leads data (data has at least a salt).
VaultOf(w, p, data) ==
    encrypt_key(wallets[w], PassBytes(p), SubSeq(data, 1, SALT_LEN)).value

\* data is a vault of wallet w under passphrase p
IsVaultOf(w, p, data) ==
    /\ Len(data) >= SALT_LEN
    /\ data = VaultOf(w, p, data)

\* data is a vault of wallet w under passphrase p with exactly one byte
\* changed, at an (0-based) position >= 16
IsTamperedVaultOf(w, p, data) ==
    /\ Len(data) >= SALT_LEN
    /\ LET v == VaultOf(w, p, data)
       IN  /\ Len(data) = Len(v)
           /\ Cardinality({i \in 1..Len(v) : data[i] # v[i]}) = 1
           /\ \A i \in 1..SALT_LEN : data[i] = v[i]

\* data authenticates under the passphrase: the length of its plaintext
Authenticates(p, data) ==
    /\ Len(data) >= SALT_LEN
    /\ LET key_and_nonce ==
               Pbkdf2Derive(SubSeq(data, 1, SALT_LEN), PassBytes(p), ENC_KEY_LEN + NONCE_LEN)
       IN  OpenInPlace(SubSeq(key_and_nonce, 1, ENC_KEY_LEN),
                       SubSeq(key_and_nonce, ENC_KEY_LEN + 1, ENC_KEY_LEN + NONCE_LEN),
                       SubSeq(data, SALT_LEN + 1, Len(data))).kind = "Ok"

PlaintextLen(data) == Len(data) - SALT_LEN - TAG_LEN

\* C1  Vault round-trip: from_encrypted_key(p, encrypt_key(w, p)) returns a
\* wallet with the chain code and private key of w's root key and an empty
\* account cache, whatever w's cache holds.
C1_VaultRoundTrip ==
    ret.op = "from_encrypted_key" =>
        \A w \in DOMAIN wallets :
            IsVaultOf(w, ret.passphrase, ret.data) =>
                /\ ret.res.kind = "Ok"
                /\ ret.res.value.root_key.chain_code = wallets[w].root_key.chain_code
                /\ ret.res.value.root_key.private_key = wallets[w].root_key.private_key
                /\ ret.res.value.accounts = NoAccounts

\* C1 witness: a vault of a wallet with a filled cache was decrypted.
C1_Witness ==
    /\ ret.op = "from_encrypted_key"
    /\ \E w \in DOMAIN wallets :
        /\ IsVaultOf(w, ret.passphrase, ret.data)
        /\ DOMAIN wallets[w].accounts = Indices
    /\ ret.res.kind = "Ok"

\* C2  Wrong passphrase: from_encrypted_key(p2, encrypt_key(w, p1)) with
\* p1 # p2 returns the authentication error and no wallet.
C2_WrongPassphraseRejected ==
    ret.op = "from_encrypted_key" =>
        \A w \in DOMAIN wallets, p1 \in Passphrases \ {ret.passphrase} :
            IsVaultOf(w, p1, ret.data) => ret.res = Err("Unspecified")

\* C2 witness: a vault was opened with another passphrase.
C2_Witness ==
    /\ ret.op = "from_encrypted_key"
    /\ \E w \in DOMAIN wallets, p1 \in Passphrases \ {ret.passphrase} :
            IsVaultOf(w, p1, ret.data)
    /\ ret.res.kind = "Err"

\* C3  Tamper detection: a vault with one byte of its ciphertext or tag
\* changed is rejected with the authentication error under its passphrase.
C3_TamperDetected ==
    ret.op = "from_encrypted_key" =>
        \A w \in DOMAIN wallets :
            IsTamperedVaultOf(w, ret.passphrase, ret.data) => ret.res = Err("Unspecified")

\* C3 witness: a vault whose last tag byte was changed was rejected.
C3_Witness ==
    /\ ret.op = "from_encrypted_key"
    /\ \E w \in DOMAIN wallets :
        /\ IsTamperedVaultOf(w, ret.passphrase, ret.data)
        /\ ret.data[Len(ret.data)] # VaultOf(w, ret.passphrase, ret.data)[Len(ret.data)]
    /\ ret.res.kind = "Err"

\* C7  Too-short input: data shorter than a salt and a tag makes
\* from_encrypted_key return an error value (no wallet, no abort).
C7_ShortInputIsError ==
    (ret.op = "from_encrypted_key" /\ Len(ret.data) < SALT_LEN + TAG_LEN) =>
        ret.res.kind = "Err"

\* C10  Inconsistent plaintext length: a vault that authenticates and whose
\* plaintext is not 64 bytes long makes from_encrypted_key return an error
\* value (no wallet, no abort).
C10_BadPlaintextLengthIsError ==
    (/\ ret.op = "from_encrypted_key"
     /\ Authenticates(ret.passphrase, ret.data)
     /\ PlaintextLen(ret.data) # 2 * KEY_BYTE_SIZE) =>
        ret.res.kind = "Err"

\* Every cached entry of every wallet is what derivation yields at its index.
CacheDerived ==
    \A w \in DOMAIN wallets :
        \A i \in DOMAIN wallets[w].accounts :
            Ok(wallets[w].accounts[i]) = Derive(wallets[w].root_key, i)

\* C4 as stated  Cache invariant: in every state reachable by get_account,
\* set_account and encrypt_key, every cached entry equals the account a
\* fresh derivation at its index yields.
C4_CacheInvariant == CacheDerived

\* C4 as amended  The cache invariant holds after construction and every
\* call keeps it, except a set_account(i, a) whose a is not the account the
\* wallet derives at i.
C4_CacheInvariantUnlessForeignSet ==
    /\ (ret = NoCall => CacheDerived)
    /\ [][(/\ CacheDerived
           /\ ~(/\ ret'.op = "set_account"
                /\ Ok(ret'.account) # Derive(wallets[ret'.wallet].root_key, ret'.index)))
          => CacheDerived']_vars

\* C4 witness: a filled cache, after a restoring set_account, that satisfies
\* the invariant.
C4_Witness ==
    /\ ret.op = "set_account"
    /\ Ok(ret.account) = Derive(wallets[ret.wallet].root_key, ret.index)
    /\ DOMAIN wallets[ret.wallet].accounts = Indices
    /\ CacheDerived

C6_NoPartialMutation ==
    [][ret'.op = "get_account" =>
        LET w == ret'.wallet
            i == ret'.index
        IN  /\ ret'.res.kind = "Err" =>
                /\ wallets' = wallets
                /\ ret'.res = Derive(wallets[w].root_key, i)
            /\ wallets' # wallets =>
                /\ ret'.res = Derive(wallets[w].root_key, i)
                /\ ret'.res.kind = "Ok"
                /\ wallets' = [wallets EXCEPT ![w].accounts =
                                    Insert(wallets[w].accounts, i, ret'.res.value)]]_vars

\* C6 witness: get_account returned the derivation error on a wallet whose
\* cache holds entries.
C6_Witness ==
    /\ ret.op = "get_account"
    /\ ret.res.kind = "Err"
    /\ ret.index \notin DOMAIN wallets[ret.wallet].accounts
    /\ wallets[ret.wallet].accounts # NoAccounts

\* C8  Determinism: two wallets built from the same mnemonic, whatever
\* get_account calls each has served, return accounts with the same public
\* and private key from get_account(i), for every index i (or both fail).
C8_Determinism ==
    \A w1 \in DOMAIN wallets, w2 \in DOMAIN wallets :
        wallets[w1].root_key = wallets[w2].root_key =>
            /\ \A i \in Indices :
                LET r1 == get_account(wallets[w1], i).res
                    r2 == get_account(wallets[w2], i).res
                IN  /\ r1.kind = r2.kind
                    /\ r1.kind = "Ok" =>
                        /\ r1.value.public_key = r2.value.public_key
                        /\ r1.value.private_key = r2.value.private_key
            /\ (ret.op = "get_account" /\ ret.wallet = w1) =>
                    ret.res = get_account(wallets[w2], ret.index).res

\* C8 witness: get_account(i) returned an account on one wallet while the
\* other wallet of the same mnemonic holds different cache entries, none at i.
C8_Witness ==
    /\ DOMAIN wallets = {1, 2}
    /\ wallets[1].root_key = wallets[2].root_key
    /\ ret.op = "get_account"
    /\ ret.wallet = 1
    /\ ret.res.kind = "Ok"
    /\ wallets[2].accounts # NoAccounts
    /\ ret.index \notin DOMAIN wallets[2].accounts

\* C9  set_account(i, a) is an unconditional upsert: afterwards the cache
\* maps i to a, every other entry and the root key are as before, and a
\* get_account(i) that follows returns a and changes nothing.
C9_SetAccountUpsert ==
    [][/\ ret'.op = "set_account" =>
            LET w == ret'.wallet
            IN  /\ wallets'[w].accounts[ret'.index] = ret'.account
                /\ DOMAIN wallets'[w].accounts
                        = DOMAIN wallets[w].accounts \cup {ret'.index}
                /\ \A j \in DOMAIN wallets[w].accounts \ {ret'.index} :
                        wallets'[w].accounts[j] = wallets[w].accounts[j]
                /\ wallets'[w].root_key = wallets[w].root_key
                /\ \A v \in DOMAIN wallets \ {w} : wallets'[v] = wallets[v]
       /\ (/\ ret.op = "set_account"
           /\ ret'.op = "get_account"
           /\ ret'.wallet = ret.wallet
           /\ ret'.index = ret.index) =>
            /\ ret'.res = Ok(ret.account)
            /\ ret'.cached
            /\ wallets' = wallets]_vars

\* C9 witness: get_account returned, from the cache, an account at an index
\* where derivation fails: only set_account can have put it there.
C9_Witness ==
    /\ ret.op = "get_account"
    /\ ret.cached
    /\ ret.res.kind = "Ok"
    /\ Derive(wallets[ret.wallet].root_key, ret.index).kind = "Err"

====
